---- MODULE Spec2Model ----
(***************************************************************************)
(* Model of the whisper-field backend (src/backend/app.py): the two        *)
(* persisted collections whispers.json and replies.json, the 48-hour       *)
(* expiry sweep with its cascade, and the request handlers.                *)
(*                                                                         *)
(* Time is counted in whole hours.  A record's created_at is kept as the   *)
(* text isoformat() writes (here a fixed-width digit sequence) and is      *)
(* parsed back by the sweep.  Request text is a sequence of characters.    *)
(* The is_sensitive flag is stored and never read by any handler; it is    *)
(* left out of the whisper record.                                         *)
(***************************************************************************)
EXTENDS Integers, Sequences, FiniteSets, TLC

VARIABLES
    whispersFile,   \* contents of WHISPERS_FILE: a sequence of whisper records
    repliesFile,    \* contents of REPLIES_FILE: a sequence of reply records
    now,            \* datetime.utcnow(), in hours
    last,           \* the last request served and the response it got
    assignedW,      \* history: whisper ids handed out by successful creates
    assignedR,      \* history: reply ids handed out by successful creates
    inflight,       \* per worker: the request it is serving step by step, or
                    \* the one it served last, with what the request loaded
    removed         \* history: <<id, created_at>> of the whispers a sweep's
                    \* write dropped from the whispers file

vars == <<whispersFile, repliesFile, now, last, assignedW, assignedR, inflight, removed>>

files == <<whispersFile, repliesFile>>

----------------------------------------------------------------------------
(* Bounds of the model *)

\* records held by the two files together
MaxRecords == 3

\* steps of the clock
MaxTicks == 2

\* records the two files may hold when a create served call by call begins
MaxRaceRecords == 2

(* Program constant: timedelta(hours=48) *)
RetentionHours == 48

(* The clock advances in steps of this many hours *)
TickSteps == {24}

(* Request inputs *)
NoBody == [has |-> FALSE, content |-> <<>>, topic |-> <<>>]

Bodies ==
    { NoBody,
      [has |-> TRUE, content |-> <<>>, topic |-> <<>>],
      [has |-> TRUE, content |-> <<" ">>, topic |-> <<>>],
      [has |-> TRUE, content |-> <<" ", "a", " ">>, topic |-> <<"vent">>] }

\* the request bodies of the concurrent runs: one without, one with content
RaceBodies ==
    { NoBody, [has |-> TRUE, content |-> <<" ", "a", " ">>, topic |-> <<"vent">>] }

Ids == {1, 2}

TopicFilters == {"all", "vent"}

----------------------------------------------------------------------------
(* Pure helpers *)

\* str.strip(): drop leading and trailing whitespace
RECURSIVE LStrip(_)
LStrip(s) ==
    IF s = <<>> THEN <<>>
    ELSE IF Head(s) = " " THEN LStrip(Tail(s)) ELSE s

RECURSIVE RStrip(_)
RStrip(s) ==
    IF s = <<>> THEN <<>>
    ELSE IF s[Len(s)] = " " THEN RStrip(SubSeq(s, 1, Len(s) - 1)) ELSE s

Strip(s) == RStrip(LStrip(s))

\* `not data or not data.get('content')`
ContentMissing(body) == ~body.has \/ body.content = <<>>

\* data.get('topic', 'random')
TopicOf(body) == IF body.topic = <<>> THEN "random" ELSE body.topic[1]

\* datetime.isoformat(): zero-padded fixed-width text
IsoFormat(t) == << t \div 100, (t \div 10) % 10, t % 10 >>

\* datetime.fromisoformat()
FromIso(s) == 100 * s[1] + 10 * s[2] + s[3]

\* string comparison of two created_at texts
RECURSIVE StrLess(_, _)
StrLess(a, b) ==
    IF a = <<>> THEN b # <<>>
    ELSE IF b = <<>> THEN FALSE
    ELSE IF Head(a) # Head(b) THEN Head(a) < Head(b)
    ELSE StrLess(Tail(a), Tail(b))

SeqRange(s) == { s[i] : i \in 1..Len(s) }

\* max([r['id'] for r in records], default=0)
RECURSIVE MaxId(_)
MaxId(records) ==
    IF records = <<>> THEN 0
    ELSE LET m == MaxId(Tail(records))
         IN  IF Head(records).id > m THEN Head(records).id ELSE m

\* an allocator that forgets the + 1
NextIdNoIncrement(records) == MaxId(records)

\* max_id + 1
NextId(records) == MaxId(records) + 1

----------------------------------------------------------------------------
(* Store: load_data / save_data *)

\* load_data(filename): the file's records, or [] when reading or parsing
\* raises (the exception is caught and only printed)
LoadData(file, ok) == IF ok THEN file ELSE <<>>

\* a store that would add the last record of data to what is persisted
SaveDataAppending(file, data, ok) ==
    IF ok /\ data # <<>> THEN Append(file, data[Len(data)]) ELSE file

\* save_data(filename, data): the file holds data when the write succeeds and
\* keeps its previous contents when it does not
SaveData(file, data, ok) == IF ok THEN data ELSE file

\* one entry of the log of save_data calls an operation made
Saved(name, ok) == [file |-> name, ok |-> ok]

----------------------------------------------------------------------------
(* Expiry sweep: cleanup_old_whispers *)

\* cutoff_time = utcnow() - timedelta(hours=48)
Cutoff(t) == t - RetentionHours

\* created_time > cutoff_time
Kept(w, t) == FromIso(w.created_at) > Cutoff(t)

\* a sweep that removes from the list it is iterating over skips the record
\* that follows each removed one
RECURSIVE FilteredWhispersSkipping(_, _)
FilteredWhispersSkipping(ws, t) ==
    IF ws = <<>> THEN <<>>
    ELSE IF Kept(Head(ws), t) THEN <<Head(ws)>> \o FilteredWhispersSkipping(Tail(ws), t)
    ELSE IF Tail(ws) = <<>> THEN <<>>
    ELSE <<Head(Tail(ws))>> \o FilteredWhispersSkipping(Tail(Tail(ws)), t)

\* filtered_whispers
FilteredWhispers(ws, t) == SelectSeq(ws, LAMBDA w : Kept(w, t))

\* deleted_ids
DeletedIds(ws, t) == { ws[i].id : i \in { j \in 1..Len(ws) : ~Kept(ws[j], t) } }

\* a sweep that forgets the cascade
FilteredRepliesKeepAll(rs, deleted) == rs

\* filtered_replies
FilteredReplies(rs, deleted) == SelectSeq(rs, LAMBDA r : r.whisper_id \notin deleted)

\* the replies file after the sweep
CleanupReplies(ws, rs, t, okR) ==
    IF DeletedIds(ws, t) = {} THEN rs
    ELSE SaveData(rs, FilteredReplies(rs, DeletedIds(ws, t)), okR)

\* the whispers file after the sweep
CleanupWhispers(ws, t, okW) ==
    IF DeletedIds(ws, t) = {} THEN ws
    ELSE SaveData(ws, FilteredWhispers(ws, t), okW)

\* a sweep that writes both files whether or not anything expired
CleanupSavesAlways(ws, t, okR, okW) ==
    << Saved("replies", okR), Saved("whispers", okW) >>

\* the save_data calls of the sweep, in order
CleanupSaves(ws, t, okR, okW) ==
    IF DeletedIds(ws, t) = {} THEN <<>>
    ELSE << Saved("replies", okR), Saved("whispers", okW) >>

----------------------------------------------------------------------------
(* Query helpers *)

\* index of next((w for w in whispers if w['id'] == id), None); 0 for None
\* a lookup that forgets to compare the id
FindWhisperAny(ws, id) == IF ws = <<>> THEN 0 ELSE 1

FindWhisper(ws, id) ==
    IF \E i \in 1..Len(ws) : ws[i].id = id
    THEN CHOOSE i \in 1..Len(ws) :
            /\ ws[i].id = id
            /\ \A j \in 1..(i - 1) : ws[j].id # id
    ELSE 0

\* [w for w in whispers if w['topic'] == topic], unless topic is 'all'
FilterTopic(ws, topic) ==
    IF topic = "all" THEN ws ELSE SelectSeq(ws, LAMBDA w : w.topic = topic)

\* [r for r in replies if r['whisper_id'] == id]
RepliesOf(rs, id) == SelectSeq(rs, LAMBDA r : r.whisper_id = id)

\* the count taken before the new reply is appended
CountRepliesStale(rs, id) == Len(RepliesOf(rs, id)) - 1

\* len([r for r in replies if r['whisper_id'] == id])
CountReplies(rs, id) == Len(RepliesOf(rs, id))

\* list.sort(key=created_at, reverse=True): stable, newest first
RECURSIVE InsertDesc(_, _)
InsertDesc(x, s) ==
    IF s = <<>> THEN <<x>>
    ELSE IF StrLess(Head(s).created_at, x.created_at) THEN <<x>> \o s
    ELSE <<Head(s)>> \o InsertDesc(x, Tail(s))

RECURSIVE SortDescInto(_, _)
SortDescInto(s, acc) ==
    IF s = <<>> THEN acc ELSE SortDescInto(Tail(s), InsertDesc(Head(s), acc))

\* a listing that forgets to sort
NoSort(s) == s

SortNewestFirst(s) == SortDescInto(s, <<>>)

\* list.sort(key=created_at): stable, oldest first
RECURSIVE InsertAsc(_, _)
InsertAsc(x, s) ==
    IF s = <<>> THEN <<x>>
    ELSE IF StrLess(x.created_at, Head(s).created_at) THEN <<x>> \o s
    ELSE <<Head(s)>> \o InsertAsc(x, Tail(s))

RECURSIVE SortAscInto(_, _)
SortAscInto(s, acc) ==
    IF s = <<>> THEN acc ELSE SortAscInto(Tail(s), InsertAsc(Head(s), acc))

SortOldestFirst(s) == SortAscInto(s, <<>>)

\* what get_whispers returns for the given file contents
ListWhispers(ws, topic) == SortNewestFirst(FilterTopic(ws, topic))

\* what get_replies returns for the given file contents
ListReplies(rs, id) == SortOldestFirst(RepliesOf(rs, id))

----------------------------------------------------------------------------
(* Records built by the write handlers *)

NewWhisper(ws, body, t) ==
    [ id            |-> NextId(ws),
      content       |-> Strip(body.content),
      topic         |-> TopicOf(body),
      replies_count |-> 0,
      created_at    |-> IsoFormat(t) ]

NewReply(rs, id, body, t) ==
    [ id         |-> NextId(rs),
      whisper_id |-> id,
      content    |-> Strip(body.content),
      created_at |-> IsoFormat(t) ]

\* the whispers of the file `before` that the file `after` no longer holds
Dropped(before, after) ==
    { <<before[i].id, before[i].created_at>> : i \in 1..Len(before) }
        \ { <<after[i].id, after[i].created_at>> : i \in 1..Len(after) }

\* the workers serving requests
Procs == {1, 2}

\* a worker that has served nothing yet
Idle ==
    [ pc |-> "idle", op |-> "none", id |-> 0, body |-> NoBody,
      whispers |-> <<>>, replies |-> <<>>, deleted |-> {},
      written |-> <<>>, out |-> <<>>, status |-> 0 ]

\* no request is in progress
Quiet == \A p \in Procs : inflight[p].pc = "idle"

\* the request served and its response; saved logs the save_data calls made,
\* afterSweep tells that the operation served just before was a sweep that
\* removed records
Response(op, id, body, filter, status, data, saved) ==
    [ op |-> op, id |-> id, body |-> body, filter |-> filter,
      status |-> status, data |-> data, saved |-> saved,
      afterSweep |-> (last.op = "Expire" /\ last.saved # <<>>) ]

----------------------------------------------------------------------------
(* Initial state: init_data() has written '[]' to both files *)

Init ==
    /\ whispersFile = <<>>
    /\ repliesFile = <<>>
    /\ now = 0
    /\ last = [ op |-> "Init", id |-> 0, body |-> NoBody, filter |-> "all",
                status |-> 0, data |-> <<>>, saved |-> <<>>, afterSweep |-> FALSE ]
    /\ assignedW = {}
    /\ assignedR = {}
    /\ inflight = [p \in Procs |-> Idle]
    /\ removed = {}

----------------------------------------------------------------------------
(* Operations.  okR and okW are the outcomes of the save_data calls on the   *)
(* replies file and on the whispers file.                                    *)

\* the clock advances
Tick ==
    /\ \E d \in TickSteps :
          /\ now + d <= MaxTicks * d
          /\ now' = now + d
    /\ last' = Response("Tick", 0, NoBody, "all", 0, <<>>, <<>>)
    /\ UNCHANGED <<whispersFile, repliesFile, assignedW, assignedR, inflight, removed>>

\* cleanup_old_whispers()
Expire(okR, okW) ==
    /\ whispersFile' = CleanupWhispers(whispersFile, now, okW)
    /\ repliesFile' = CleanupReplies(whispersFile, repliesFile, now, okR)
    /\ last' = Response("Expire", 0, NoBody, "all", 200, <<>>,
                        CleanupSaves(whispersFile, now, okR, okW))
    /\ removed' = removed \cup Dropped(whispersFile, whispersFile')
    /\ UNCHANGED <<now, assignedW, assignedR, inflight>>

\* GET /api/whispers?topic=...
GetWhispers(topic, okR, okW) ==
    /\ whispersFile' = CleanupWhispers(whispersFile, now, okW)
    /\ repliesFile' = CleanupReplies(whispersFile, repliesFile, now, okR)
    /\ last' = Response("ListWhispers", 0, NoBody, topic, 200,
                        ListWhispers(whispersFile', topic),
                        CleanupSaves(whispersFile, now, okR, okW))
    /\ removed' = removed \cup Dropped(whispersFile, whispersFile')
    /\ UNCHANGED <<now, assignedW, assignedR, inflight>>

\* GET /api/whispers/<id>
GetWhisper(id) ==
    /\ LET i == FindWhisper(whispersFile, id)
       IN  last' = IF i = 0
                   THEN Response("GetWhisper", id, NoBody, "all", 404, <<>>, <<>>)
                   ELSE Response("GetWhisper", id, NoBody, "all", 200,
                                 <<whispersFile[i]>>, <<>>)
    /\ UNCHANGED <<whispersFile, repliesFile, now, assignedW, assignedR, inflight, removed>>

\* GET /api/whispers/<id>/replies
GetReplies(id) ==
    /\ last' = Response("ListReplies", id, NoBody, "all", 200,
                        ListReplies(repliesFile, id), <<>>)
    /\ UNCHANGED <<whispersFile, repliesFile, now, assignedW, assignedR, inflight, removed>>

\* POST /api/whispers; okL is the outcome of load_data(WHISPERS_FILE)
CreateWhisperWith(body, okL, okW) ==
    /\ Len(whispersFile) + Len(repliesFile) < MaxRecords
    /\ IF ContentMissing(body)
       THEN /\ last' = Response("CreateWhisper", 0, body, "all", 400, <<>>, <<>>)
            /\ UNCHANGED <<whispersFile, assignedW>>
       ELSE LET loaded == LoadData(whispersFile, okL)
                whisper == NewWhisper(loaded, body, now)
                whispers == Append(loaded, whisper)
            IN  /\ whispersFile' = SaveData(whispersFile, whispers, okW)
                /\ last' = Response("CreateWhisper", 0, body, "all",
                                    IF okW THEN 200 ELSE 500,
                                    IF okW THEN <<whisper>> ELSE <<>>,
                                    << Saved("whispers", okW) >>)
                /\ assignedW' = IF okW THEN assignedW \cup {whisper.id} ELSE assignedW
    /\ UNCHANGED <<repliesFile, now, assignedR, inflight, removed>>

\* POST /api/whispers, the file being readable
CreateWhisper(body, okW) == CreateWhisperWith(body, TRUE, okW)

\* POST /api/whispers/<id>/replies
CreateReply(id, body, okR, okW) ==
    /\ Len(whispersFile) + Len(repliesFile) < MaxRecords
    /\ IF ContentMissing(body)
       THEN /\ last' = Response("CreateReply", id, body, "all", 400, <<>>, <<>>)
            /\ UNCHANGED <<whispersFile, repliesFile, assignedR>>
       ELSE IF FindWhisper(whispersFile, id) = 0
       THEN /\ last' = Response("CreateReply", id, body, "all", 404, <<>>, <<>>)
            /\ UNCHANGED <<whispersFile, repliesFile, assignedR>>
       ELSE LET i == FindWhisper(whispersFile, id)
                reply == NewReply(repliesFile, id, body, now)
                replies == Append(repliesFile, reply)
                whispers == [whispersFile EXCEPT
                                ![i].replies_count = CountReplies(replies, id)]
            IN  IF okR
                THEN /\ repliesFile' = replies
                     /\ whispersFile' = SaveData(whispersFile, whispers, okW)
                     /\ last' = Response("CreateReply", id, body, "all", 200, <<reply>>,
                                         << Saved("replies", TRUE), Saved("whispers", okW) >>)
                     /\ assignedR' = assignedR \cup {reply.id}
                ELSE /\ last' = Response("CreateReply", id, body, "all", 500, <<>>,
                                         << Saved("replies", FALSE) >>)
                     /\ UNCHANGED <<whispersFile, repliesFile, assignedR>>
    /\ UNCHANGED <<now, assignedW, inflight, removed>>

----------------------------------------------------------------------------
(* The same handlers one load_data / save_data call at a time.  A worker     *)
(* keeps what it loaded in inflight[p].  When the request is answered the    *)
(* worker is idle again and inflight[p] holds the answer (status, out) and  *)
(* the log of the writes made; of a sweep it also keeps the ids deleted.     *)
(* The variable last is the record of the handlers served in one piece and   *)
(* is not touched here.                                                      *)

Serving(p, pc, op, id, body, whispers, replies, deleted, written, out, status) ==
    [inflight EXCEPT ![p] =
        [ pc |-> pc, op |-> op, id |-> id, body |-> body,
          whispers |-> whispers, replies |-> replies, deleted |-> deleted,
          written |-> written, out |-> out, status |-> status ]]

\* create_whisper, lines 136-144: validate, then whispers = load_data(...)
CWLoad(p, body) ==
    /\ inflight[p].pc = "idle"
    /\ Len(whispersFile) + Len(repliesFile) < MaxRaceRecords
    /\ IF ContentMissing(body)
       THEN inflight' = Serving(p, "idle", "CreateWhisper", 0, NoBody,
                                <<>>, <<>>, {}, <<>>, <<>>, 400)
       ELSE inflight' = Serving(p, "cw_loaded", "CreateWhisper", 0, body,
                                LoadData(whispersFile, TRUE), <<>>, {}, <<>>, <<>>, 0)
    /\ UNCHANGED <<whispersFile, repliesFile, now, last, assignedW, assignedR, removed>>

\* create_whisper, lines 147-169: build the record, append, save_data, answer
CWSave(p, okW) ==
    /\ inflight[p].pc = "cw_loaded"
    /\ LET me == inflight[p]
           whisper == NewWhisper(me.whispers, me.body, now)
           whispers == Append(me.whispers, whisper)
           saved == << Saved("whispers", okW) >>
       IN  /\ whispersFile' = SaveData(whispersFile, whispers, okW)
           /\ inflight' = Serving(p, "idle", "CreateWhisper", 0, NoBody,
                                  <<>>, <<>>, {}, saved,
                                  IF okW THEN <<whisper>> ELSE <<>>,
                                  IF okW THEN 200 ELSE 500)
           /\ assignedW' = IF okW THEN assignedW \cup {whisper.id} ELSE assignedW
    /\ UNCHANGED <<repliesFile, now, last, assignedR, removed>>

\* create_reply, lines 193-206: validate, load the whispers, look the id up
CRLoadWhispers(p, id, body) ==
    /\ inflight[p].pc = "idle"
    /\ Len(whispersFile) + Len(repliesFile) < MaxRaceRecords
    /\ IF ContentMissing(body)
       THEN inflight' = Serving(p, "idle", "CreateReply", 0, NoBody,
                                <<>>, <<>>, {}, <<>>, <<>>, 400)
       ELSE IF FindWhisper(LoadData(whispersFile, TRUE), id) = 0
       THEN inflight' = Serving(p, "idle", "CreateReply", 0, NoBody,
                                <<>>, <<>>, {}, <<>>, <<>>, 404)
       ELSE inflight' = Serving(p, "cr_whispers", "CreateReply", id, body,
                                LoadData(whispersFile, TRUE), <<>>, {}, <<>>, <<>>, 0)
    /\ UNCHANGED <<whispersFile, repliesFile, now, last, assignedW, assignedR, removed>>

\* create_reply, line 208: replies = load_data(REPLIES_FILE)
CRLoadReplies(p) ==
    /\ inflight[p].pc = "cr_whispers"
    /\ inflight' = [inflight EXCEPT ![p].pc = "cr_replies",
                                    ![p].replies = LoadData(repliesFile, TRUE)]
    /\ UNCHANGED <<whispersFile, repliesFile, now, last, assignedW, assignedR, removed>>

\* create_reply, lines 211-222 and 231-235: build the reply, append, save
CRSaveReplies(p, okR) ==
    /\ inflight[p].pc = "cr_replies"
    /\ LET me == inflight[p]
           reply == NewReply(me.replies, me.id, me.body, now)
           replies == Append(me.replies, reply)
           saved == << Saved("replies", okR) >>
       IN  IF okR
           THEN /\ repliesFile' = replies
                /\ inflight' = [inflight EXCEPT ![p].pc = "cr_saved",
                                                ![p].replies = replies,
                                                ![p].written = saved,
                                                ![p].out = <<reply>>]
                /\ assignedR' = assignedR \cup {reply.id}
           ELSE /\ inflight' = Serving(p, "idle", "CreateReply", 0, NoBody,
                                       <<>>, <<>>, {}, saved, <<>>, 500)
                /\ UNCHANGED <<repliesFile, assignedR>>
    /\ UNCHANGED <<whispersFile, now, last, assignedW, removed>>

\* create_reply, lines 224-230: recount, save the loaded whispers, answer
CRSaveWhispers(p, okW) ==
    /\ inflight[p].pc = "cr_saved"
    /\ LET me == inflight[p]
           i == FindWhisper(me.whispers, me.id)
           whispers == [me.whispers EXCEPT
                           ![i].replies_count = CountReplies(me.replies, me.id)]
           saved == Append(me.written, Saved("whispers", okW))
       IN  /\ whispersFile' = SaveData(whispersFile, whispers, okW)
           /\ inflight' = Serving(p, "idle", "CreateReply", 0, NoBody,
                                  <<>>, <<>>, {}, saved, me.out, 200)
    /\ UNCHANGED <<repliesFile, now, last, assignedW, assignedR, removed>>

\* the sweep writes this file first
FirstWrittenWhispers == "whispers"

\* cleanup_old_whispers, lines 71-72: the replies are saved first
FirstWritten == "replies"

\* cleanup_old_whispers, lines 54-65: load the whispers and partition them
ExLoadWhispers(p) ==
    /\ inflight[p].pc = "idle"
    /\ LET whispers == LoadData(whispersFile, TRUE)
           deleted == DeletedIds(whispers, now)
       IN  IF deleted = {}
           THEN inflight' = Serving(p, "idle", "Expire", 0, NoBody,
                                    <<>>, <<>>, {}, <<>>, <<>>, 200)
           ELSE inflight' = Serving(p, "ex_whispers", "Expire", 0, NoBody,
                                    FilteredWhispers(whispers, now), <<>>, deleted,
                                    <<>>, <<>>, 0)
    /\ UNCHANGED <<whispersFile, repliesFile, now, last, assignedW, assignedR, removed>>

\* cleanup_old_whispers, lines 69-70: load the replies and filter them
ExLoadReplies(p) ==
    /\ inflight[p].pc = "ex_whispers"
    /\ inflight' = [inflight EXCEPT
                       ![p].pc = "ex_replies",
                       ![p].replies = FilteredReplies(LoadData(repliesFile, TRUE),
                                                      inflight[p].deleted)]
    /\ UNCHANGED <<whispersFile, repliesFile, now, last, assignedW, assignedR, removed>>

\* one save_data call of the sweep on the named file
ExWrite(p, file, ok) ==
    IF file = "replies"
    THEN /\ repliesFile' = SaveData(repliesFile, inflight[p].replies, ok)
         /\ UNCHANGED <<whispersFile, removed>>
    ELSE /\ whispersFile' = SaveData(whispersFile, inflight[p].whispers, ok)
         /\ removed' = removed \cup Dropped(whispersFile, whispersFile')
         /\ UNCHANGED repliesFile

\* cleanup_old_whispers, line 71: the first save_data call
ExSaveFirst(p, ok) ==
    /\ inflight[p].pc = "ex_replies"
    /\ ExWrite(p, FirstWritten, ok)
    /\ inflight' = [inflight EXCEPT ![p].pc = "ex_between",
                                    ![p].written = << Saved(FirstWritten, ok) >>]
    /\ UNCHANGED <<now, last, assignedW, assignedR>>

\* cleanup_old_whispers, lines 72-74: the second save_data call, and return
ExSaveSecond(p, ok) ==
    /\ inflight[p].pc = "ex_between"
    /\ LET second == IF FirstWritten = "replies" THEN "whispers" ELSE "replies"
           saved == Append(inflight[p].written, Saved(second, ok))
       IN  /\ ExWrite(p, second, ok)
           /\ inflight' = Serving(p, "idle", "Expire", 0, NoBody,
                                  <<>>, <<>>, inflight[p].deleted, saved, <<>>, 200)
    /\ UNCHANGED <<now, last, assignedW, assignedR>>

----------------------------------------------------------------------------
(* Specifications *)

\* requests served one at a time, every save_data succeeding
Next ==
    \/ Tick
    \/ Expire(TRUE, TRUE)
    \/ \E topic \in TopicFilters : GetWhispers(topic, TRUE, TRUE)
    \/ \E id \in Ids : GetWhisper(id)
    \/ \E id \in Ids : GetReplies(id)
    \/ \E body \in Bodies : CreateWhisper(body, TRUE)
    \/ \E id \in Ids, body \in Bodies : CreateReply(id, body, TRUE, TRUE)

Spec == Init /\ [][Next]_vars

\* requests served one at a time, each save_data succeeding or failing
NextSaveFail ==
    \/ Tick
    \/ \E okR, okW \in BOOLEAN : Expire(okR, okW)
    \/ \E topic \in TopicFilters, okR, okW \in BOOLEAN : GetWhispers(topic, okR, okW)
    \/ \E id \in Ids : GetWhisper(id)
    \/ \E id \in Ids : GetReplies(id)
    \/ \E body \in Bodies, okW \in BOOLEAN : CreateWhisper(body, okW)
    \/ \E id \in Ids, body \in Bodies, okR, okW \in BOOLEAN : CreateReply(id, body, okR, okW)

SpecSaveFail == Init /\ [][NextSaveFail]_vars

\* only CreateWhisper calls, starting from the empty collection
NextCreate ==
    \/ Tick
    \/ \E body \in Bodies : CreateWhisper(body, TRUE)

SpecCreate == Init /\ [][NextCreate]_vars

\* requests served one at a time; only the saves of the sweep may fail
NextSweepFail ==
    \/ Tick
    \/ \E okR, okW \in BOOLEAN : Expire(okR, okW)
    \/ \E topic \in TopicFilters, okR, okW \in BOOLEAN : GetWhispers(topic, okR, okW)
    \/ \E body \in Bodies : CreateWhisper(body, TRUE)
    \/ \E id \in Ids, body \in Bodies : CreateReply(id, body, TRUE, TRUE)

SpecSweepFail == Init /\ [][NextSweepFail]_vars

\* requests served one at a time; create_whisper's load_data may fail soft
NextLoadFail ==
    \/ Tick
    \/ Expire(TRUE, TRUE)
    \/ \E body \in Bodies, okL \in BOOLEAN : CreateWhisperWith(body, okL, TRUE)
    \/ \E id \in Ids, body \in Bodies : CreateReply(id, body, TRUE, TRUE)

SpecLoadFail == Init /\ [][NextLoadFail]_vars

\* requests served concurrently, interleaved at the individual load_data and
\* save_data calls, every call succeeding
NextRace ==
    \/ Tick
    \/ \E p \in Procs, body \in RaceBodies : CWLoad(p, body)
    \/ \E p \in Procs : CWSave(p, TRUE)
    \/ \E p \in Procs, id \in Ids, body \in RaceBodies : CRLoadWhispers(p, id, body)
    \/ \E p \in Procs : CRLoadReplies(p)
    \/ \E p \in Procs : CRSaveReplies(p, TRUE)
    \/ \E p \in Procs : CRSaveWhispers(p, TRUE)
    \/ \E p \in Procs : ExLoadWhispers(p)
    \/ \E p \in Procs : ExLoadReplies(p)
    \/ \E p \in Procs : ExSaveFirst(p, TRUE)
    \/ \E p \in Procs : ExSaveSecond(p, TRUE)

SpecRace == Init /\ [][NextRace]_vars

\* two workers serving CreateWhisper calls concurrently
NextCreateRace ==
    \/ Tick
    \/ \E p \in Procs, body \in Bodies : CWLoad(p, body)
    \/ \E p \in Procs : CWSave(p, TRUE)

SpecCreateRace == Init /\ [][NextCreateRace]_vars

\* worker 1 serves CreateReply calls while worker 2 runs sweeps; whispers are
\* created while neither is at work
NextReplySweep ==
    \/ Tick
    \/ \E body \in Bodies : Quiet /\ CreateWhisper(body, TRUE)
    \/ \E id \in Ids, body \in Bodies : CRLoadWhispers(1, id, body)
    \/ CRLoadReplies(1)
    \/ CRSaveReplies(1, TRUE)
    \/ CRSaveWhispers(1, TRUE)
    \/ ExLoadWhispers(2)
    \/ ExLoadReplies(2)
    \/ ExSaveFirst(2, TRUE)
    \/ ExSaveSecond(2, TRUE)

SpecReplySweep == Init /\ [][NextReplySweep]_vars

\* requests served one at a time, the sweep one call at a time: it can be
\* seen, and can stop, between its two writes, and each write can fail
NextSweepSteps ==
    \/ Tick
    \/ \E body \in Bodies : Quiet /\ CreateWhisper(body, TRUE)
    \/ \E id \in Ids, body \in Bodies : Quiet /\ CreateReply(id, body, TRUE, TRUE)
    \/ Quiet /\ ExLoadWhispers(1)
    \/ ExLoadReplies(1)
    \/ \E ok \in BOOLEAN : ExSaveFirst(1, ok)
    \/ \E ok \in BOOLEAN : ExSaveSecond(1, ok)

SpecSweepSteps == Init /\ [][NextSweepSteps]_vars

----------------------------------------------------------------------------
(* Vocabulary of the properties *)

\* created_at <= now - 48h
Expired(rec, t) == FromIso(rec.created_at) <= t - RetentionHours

SweepOps == {"Expire", "ListWhispers"}

ReadOps == {"ListWhispers", "GetWhisper", "ListReplies"}

CreateOps == {"CreateWhisper", "CreateReply"}

HasWhisper(ws, id) == \E i \in 1..Len(ws) : ws[i].id = id

NumReplies(rs, id) == Cardinality({ j \in 1..Len(rs) : rs[j].whisper_id = id })

\* the request carries text that is empty or only whitespace
BlankContent(body) ==
    /\ body.has
    /\ \A k \in 1..Len(body.content) : body.content[k] = " "

\* the request carries text that is not the empty string
GivenContent(body) == body.has /\ Len(body.content) > 0

----------------------------------------------------------------------------
(* C1  Cascade completeness: after a sweep at time now whose saves succeed, *)
(* for every whisper that had created_at <= now - 48h no persisted reply    *)
(* carries its id, the whisper is gone from the persisted whispers, and     *)
(* neither ListWhispers nor GetWhisper on the persisted state returns it.   *)
CascadeCompleteness ==
    [][ last'.op \in SweepOps =>
          \A i \in 1..Len(whispersFile) :
             Expired(whispersFile[i], now') =>
                /\ \A j \in 1..Len(repliesFile') :
                      repliesFile'[j].whisper_id # whispersFile[i].id
                /\ whispersFile[i] \notin SeqRange(whispersFile')
                /\ \A topic \in TopicFilters :
                      whispersFile[i] \notin SeqRange(ListWhispers(whispersFile', topic))
                /\ LET k == FindWhisper(whispersFile', whispersFile[i].id)
                   IN  k # 0 => whispersFile'[k] # whispersFile[i]
      ]_vars

\* a sweep has just removed a whisper together with every reply there was,
\* and kept a younger whisper
CascadeWitness ==
    /\ last.op = "Expire"
    /\ last.saved # <<>>
    /\ assignedR # {}
    /\ repliesFile = <<>>
    /\ whispersFile # <<>>

(* C2  Every read (ListWhispers, GetWhisper, ListReplies) returns no whisper *)
(* with created_at <= now - 48h and no reply whose parent whisper has        *)
(* created_at <= now - 48h.                                                  *)
ReadsNeverReturnExpired ==
    last.op \in ReadOps =>
       \A x \in SeqRange(last.data) :
          IF last.op = "ListReplies"
          THEN \A i \in 1..Len(whispersFile) :
                  whispersFile[i].id = x.whisper_id => ~Expired(whispersFile[i], now)
          ELSE ~Expired(x, now)

(* C3  Replies-count consistency: each persisted whisper's replies_count is  *)
(* the number of persisted replies whose whisper_id is its id.               *)
RepliesCountConsistent ==
    \A i \in 1..Len(whispersFile) :
       whispersFile[i].replies_count = NumReplies(repliesFile, whispersFile[i].id)

\* a second reply has just been added to a whisper
RepliesCountWitness ==
    /\ last.op = "CreateReply"
    /\ last.status = 200
    /\ \E i \in 1..Len(whispersFile) :
          whispersFile[i].id = last.id /\ whispersFile[i].replies_count = 2

(* C4  Identifiers are never reused: an id once assigned to a whisper (a     *)
(* reply) is never assigned to a whisper (a reply) created later.            *)
IdsNeverReused ==
    [][ /\ (last'.op = "CreateWhisper" /\ last'.status = 200)
            => last'.data[1].id \notin assignedW
        /\ (last'.op = "CreateReply" /\ last'.status = 200)
            => last'.data[1].id \notin assignedR
      ]_vars

(* C5  From the empty collection, N successful CreateWhisper calls in a row  *)
(* assign the ids 1, 2, ..., N in call order.                                *)
SequentialIds ==
    /\ \A i \in 1..Len(whispersFile) : whispersFile[i].id = i
    /\ Cardinality(assignedW) = Len(whispersFile)
    /\ (last.op = "CreateWhisper" /\ last.status = 200)
          => last.data[1].id = Len(whispersFile)

\* the third call in a row has just been answered
SequentialIdsWitness ==
    /\ last.op = "CreateWhisper"
    /\ last.status = 200
    /\ Len(whispersFile) = 3

(* C6  CreateWhisper and CreateReply called with empty or whitespace-only    *)
(* content return a validation error, change neither collection and consume  *)
(* no id.                                                                    *)
BlankContentRejected ==
    [][ (last'.op \in CreateOps /\ BlankContent(last'.body)) =>
           /\ last'.status = 400
           /\ UNCHANGED files
           /\ NextId(whispersFile') = NextId(whispersFile)
           /\ NextId(repliesFile') = NextId(repliesFile)
      ]_vars

(* C7  as stated: CreateReply for an id no persisted whisper has returns     *)
(* NotFound and leaves both collections unchanged.                           *)
ReplyToMissingIsNotFound ==
    [][ (last'.op = "CreateReply" /\ ~HasWhisper(whispersFile, last'.id)) =>
           (last'.status = 404 /\ UNCHANGED files)
      ]_vars

(* C7  as amended: CreateReply for an id no persisted whisper has leaves     *)
(* both collections unchanged and returns NotFound when the request carries  *)
(* non-empty content, the validation error otherwise; every reply created    *)
(* references a whisper that was in the collection when it was created.      *)
NoOrphanCreation ==
    [][ /\ (last'.op = "CreateReply" /\ ~HasWhisper(whispersFile, last'.id)) =>
              /\ last'.status = IF GivenContent(last'.body) THEN 404 ELSE 400
              /\ UNCHANGED files
        /\ (last'.op = "CreateReply" /\ last'.status = 200) =>
              /\ HasWhisper(whispersFile, last'.id)
              /\ repliesFile' = Append(repliesFile, last'.data[1])
              /\ last'.data[1].whisper_id = last'.id
      ]_vars

\* a reply with content was refused for a whisper that a sweep had removed
NoOrphanWitness ==
    /\ last.op = "CreateReply"
    /\ last.status = 404
    /\ GivenContent(last.body)
    /\ last.id \in assignedW
    /\ ~HasWhisper(whispersFile, last.id)

(* C8  Whenever CreateReply succeeds at time now, the target whisper exists  *)
(* and has created_at > now - 48h.                                           *)
RepliesOnlyToLiveWhispers ==
    (last.op = "CreateReply" /\ last.status = 200) =>
       \E i \in 1..Len(whispersFile) :
          /\ whispersFile[i].id = last.id
          /\ ~Expired(whispersFile[i], now)

(* C9  Idempotent expiry: a sweep run right after a sweep, at the same clock *)
(* value and with no write in between, leaves both collections as the first  *)
(* run left them.                                                            *)
ExpireIdempotent ==
    [][ (last.op = "Expire" /\ last'.op = "Expire") => UNCHANGED files ]_vars

\* the second of two sweeps in a row has run, the first having removed records
ExpireIdempotentWitness ==
    /\ last.op = "Expire"
    /\ last.afterSweep

(* C10  Whenever a save inside CreateWhisper or CreateReply fails, the       *)
(* operation reports a server error and never success.                       *)
SaveFailureReported ==
    (last.op \in CreateOps /\ \E k \in 1..Len(last.saved) : ~last.saved[k].ok)
       => last.status = 500

(* C11  Ordering: ListWhispers returns its whispers in non-increasing       *)
(* created_at order; ListReplies(id) returns exactly the replies with        *)
(* whisper_id = id, in non-decreasing created_at order.                      *)
NewestFirst(L) ==
    \A i, j \in 1..Len(L) : i < j => FromIso(L[i].created_at) >= FromIso(L[j].created_at)

OldestFirst(L) ==
    \A i, j \in 1..Len(L) : i < j => FromIso(L[i].created_at) <= FromIso(L[j].created_at)

Ordering ==
    /\ \A topic \in TopicFilters : NewestFirst(ListWhispers(whispersFile, topic))
    /\ \A id \in Ids :
          LET L == ListReplies(repliesFile, id)
          IN  /\ OldestFirst(L)
              /\ Len(L) = NumReplies(repliesFile, id)
              /\ \A k \in 1..Len(L) : L[k].whisper_id = id /\ L[k] \in SeqRange(repliesFile)
              /\ \A j \in 1..Len(repliesFile) :
                    repliesFile[j].whisper_id = id => repliesFile[j] \in SeqRange(L)
    /\ last.op = "ListWhispers" =>
          /\ NewestFirst(last.data)
          /\ \A x \in SeqRange(last.data) : x \in SeqRange(whispersFile)
    /\ last.op = "ListReplies" =>
          /\ OldestFirst(last.data)
          /\ Len(last.data) = NumReplies(repliesFile, last.id)
          /\ \A x \in SeqRange(last.data) :
                x.whisper_id = last.id /\ x \in SeqRange(repliesFile)

\* a listing has just returned two whispers created at different times
OrderingWitness ==
    /\ last.op = "ListWhispers"
    /\ Len(last.data) >= 2
    /\ FromIso(last.data[1].created_at) > FromIso(last.data[2].created_at)

(* C12  Convergence: after a sweep whose saves fail, the next sweep whose    *)
(* saves succeed leaves no persisted whisper with created_at <= now - 48h    *)
(* and no persisted reply whose whisper_id is the id of a whisper removed by *)
(* expiry.  Creations never leave a reply without its whisper, so this is:   *)
(* every sweep whose saves all succeed ends in such a state.                 *)
SweepConverges ==
    (last.op \in SweepOps /\ \A k \in 1..Len(last.saved) : last.saved[k].ok) =>
       /\ \A i \in 1..Len(whispersFile) : ~Expired(whispersFile[i], now)
       /\ \A j \in 1..Len(repliesFile) : HasWhisper(whispersFile, repliesFile[j].whisper_id)

(* C15  When no whisper has created_at <= now - 48h the sweep performs no    *)
(* write: neither file is saved and both are unchanged.                      *)
NoExpiredNoWrite ==
    [][ ( /\ last'.op \in SweepOps
          /\ \A i \in 1..Len(whispersFile) : ~Expired(whispersFile[i], now') ) =>
           (last'.saved = <<>> /\ UNCHANGED files)
      ]_vars

\* a sweep has just run over whispers and replies none of which had expired
NoExpiredNoWriteWitness ==
    /\ last.op = "Expire"
    /\ last.saved = <<>>
    /\ whispersFile # <<>>
    /\ repliesFile # <<>>

(* C16  A CreateWhisper that reports success only appends: the persisted    *)
(* whispers afterwards are the whispers persisted before the call plus one   *)
(* new record at the end, and the replies are unchanged, also when the load  *)
(* of the whispers failed soft.                                              *)
CreateOnlyAppends ==
    [][ (last'.op = "CreateWhisper" /\ last'.status = 200) =>
           /\ whispersFile' = Append(whispersFile, last'.data[1])
           /\ repliesFile' = repliesFile
      ]_vars

\* worker p is a sweep between its two writes, or one that has returned
\* after its second write failed
SweepStoppedAfterFirstWrite(p) ==
    /\ inflight[p].op = "Expire"
    /\ \/ inflight[p].pc = "ex_between"
       \/ /\ inflight[p].pc = "idle"
          /\ Len(inflight[p].written) = 2
          /\ ~inflight[p].written[2].ok

(* C13  The sweep writes the filtered replies before the filtered whispers: *)
(* between its two writes, and after it has ended with the second write      *)
(* failed, the first write made was that of the replies and no persisted     *)
(* reply has the id of a whisper the sweep is removing without that whisper  *)
(* still being persisted.                                                    *)
RepliesWrittenFirst ==
    \A p \in Procs :
        SweepStoppedAfterFirstWrite(p) =>
           /\ inflight[p].written[1].file = "replies"
           /\ \A j \in 1..Len(repliesFile) :
                 repliesFile[j].whisper_id \in inflight[p].deleted =>
                    HasWhisper(whispersFile, repliesFile[j].whisper_id)

\* a sweep has removed the replies of an expired whisper and then failed to
\* save the whispers: the whisper is still persisted, its replies are not
RepliesWrittenFirstWitness ==
    \E p \in Procs :
        /\ SweepStoppedAfterFirstWrite(p)
        /\ inflight[p].pc = "idle"
        /\ inflight[p].written[1].ok
        /\ \E i \in 1..Len(whispersFile) :
              /\ whispersFile[i].id \in inflight[p].deleted
              /\ whispersFile[i].replies_count > 0
              /\ NumReplies(repliesFile, whispersFile[i].id) = 0

\* worker p has answered a CreateWhisper with success
CreatedWhisper(p) ==
    /\ inflight[p].pc = "idle"
    /\ inflight[p].op = "CreateWhisper"
    /\ inflight[p].status = 200

(* C14  Lost update: when two CreateWhisper calls both load the whispers     *)
(* before either saves, the second save succeeds too, its whisper has the    *)
(* id the first writer's whisper got, and the persisted whispers afterwards  *)
(* are the snapshot both loaded plus the second writer's whisper only: the   *)
(* first writer's whisper is gone.  That p saved onto the snapshot q still   *)
(* holds shows in the file being that snapshot plus p's whisper.             *)
LostUpdate ==
    [][ \A p, q \in Procs :
          ( /\ p # q
            /\ CreatedWhisper(p)
            /\ inflight[q].pc = "cw_loaded"
            /\ whispersFile = Append(inflight[q].whispers, inflight[p].out[1])
            /\ inflight'[q].pc = "idle" ) =>
              /\ inflight'[q].status = 200
              /\ inflight'[q].out[1].id = inflight[p].out[1].id
              /\ whispersFile' = Append(inflight[q].whispers, inflight'[q].out[1])
              /\ inflight'[q].out[1] # inflight[p].out[1] =>
                    \A i \in 1..Len(whispersFile') :
                        whispersFile'[i] # inflight[p].out[1]
      ]_vars

\* both workers have answered success for different whispers with the same
\* id, and only one of the two whispers is persisted
LostUpdateWitness ==
    \E p, q \in Procs :
        /\ p # q
        /\ CreatedWhisper(p)
        /\ CreatedWhisper(q)
        /\ inflight[p].out[1].id = inflight[q].out[1].id
        /\ inflight[p].out[1] # inflight[q].out[1]
        /\ \E i \in 1..Len(whispersFile) : whispersFile[i] = inflight[q].out[1]
        /\ \A i \in 1..Len(whispersFile) : whispersFile[i] # inflight[p].out[1]

\* no two records of the collection have the same id
UniqueIds(records) ==
    \A i, j \in 1..Len(records) : records[i].id = records[j].id => i = j

(* C17  Under any interleaving of CreateWhisper, CreateReply and the sweep   *)
(* at the granularity of single loads and saves, no two persisted whispers   *)
(* have the same id and no two persisted replies have the same id.           *)
UniqueStoredIds ==
    /\ UniqueIds(whispersFile)
    /\ UniqueIds(repliesFile)

\* two CreateWhisper calls have raced to the same id on top of a persisted
\* whisper, and two whispers are persisted
UniqueStoredIdsWitness ==
    /\ Len(whispersFile) = 2
    /\ \E p, q \in Procs :
          /\ p # q
          /\ CreatedWhisper(p)
          /\ CreatedWhisper(q)
          /\ inflight[p].out[1].id = inflight[q].out[1].id

(* C18  No resurrection: a whisper that a sweep has removed from the         *)
(* persisted whispers is never persisted again, also when a CreateReply that *)
(* loaded the whispers before the sweep saves them after it.                 *)
NoResurrection ==
    \A i \in 1..Len(whispersFile) :
        <<whispersFile[i].id, whispersFile[i].created_at>> \notin removed

(* C19  Referential integrity under races: once a CreateReply and a sweep    *)
(* that ran interleaved, all saves succeeding, have both completed, every    *)
(* persisted reply's whisper_id is the id of a persisted whisper.            *)
ReferencesSurviveRace ==
    ( /\ Quiet
      /\ inflight[1].op = "CreateReply"
      /\ inflight[2].op = "Expire" ) =>
        \A j \in 1..Len(repliesFile) :
            HasWhisper(whispersFile, repliesFile[j].whisper_id)

====
